---------------------------- MODULE Spec2Model ----------------------------
(***************************************************************************)
(* Model of the qpsolvers dispatch layer: solve_qp and solve_safer_qp      *)
(* (qpsolvers/solve_qp.py) and the two adapters highs_solve_qp             *)
(* (qpsolvers/solvers/highs_.py) and piqp_solve_qp / piqp_solve_problem    *)
(* (qpsolvers/solvers/piqp_.py).                                           *)
(*                                                                         *)
(* Arrays live in a heap of objects, so that "the caller's array" and "a   *)
(* new array" are different things: a Python name holds a reference (an    *)
(* index into heap, 0 for None), an expression such as 0.5 * (P + P.T)     *)
(* allocates, and reshape / slicing make a view on the data of another     *)
(* object.  Numbers are integers; the entries of P are even, so that the   *)
(* halving of the symmetrization is exact, as it is in binary floating     *)
(* point.                                                                  *)
(***************************************************************************)
EXTENDS Integers, Sequences, FiniteSets, TLC

VARIABLES
    heap,            \* sequence of array objects; a reference is an index
    heap0,           \* the heap as it was when the caller made the call
    solve_function,  \* the registry: solver name -> adapter name
    dense_solvers,   \* names of the dense solvers
    advisories,      \* per conversion statement, the advisories emitted so far
    pc,              \* position of the running call
    entry,           \* the function the caller called
    caller,          \* the caller's own references, by parameter name
    safer,           \* frame of solve_safer_qp
    qp,              \* frame of solve_qp
    adp,             \* frame of the running adapter
    piqp,            \* frame of piqp_solve_problem
    outcome,         \* what the caller's call gave: return value or exception
    trace            \* the steps taken by the running call, in order

vars == <<heap, heap0, solve_function, dense_solvers, advisories, pc, entry, caller,
          safer, qp, adp, piqp, outcome, trace>>

-----------------------------------------------------------------------------
(* Bounds of the model *)

\* largest number of variables n of a problem
MaxN == 2
\* largest number of rows of a 2-dimensional G or A
MaxM == 2

None == 0

-----------------------------------------------------------------------------
(* Array values: a shape, <<k>> or <<r, c>>, and the entries in row-major order *)

Size(shape) == IF Len(shape) = 1 THEN shape[1] ELSE shape[1] * shape[2]

\* the vector of the n entries f[1], ..., f[n]
Vec(n, f) == [shape |-> <<n>>, data |-> [k \in 1..n |-> f[k]]]

\* the r x c matrix of the entries f[i, j]
Mat(r, c, f) ==
    [shape |-> <<r, c>>,
     data  |-> [k \in 1..(r * c) |-> f[((k - 1) \div c) + 1, ((k - 1) % c) + 1]]]

Elem(M, i, j) == M.data[(i - 1) * M.shape[2] + j]

eye(m) == Mat(m, m, [i \in 1..m, j \in 1..m |-> IF i = j THEN 1 ELSE 0])

zeros(m, n) == Mat(m, n, [i \in 1..m, j \in 1..n |-> 0])

zeros1(m) == Vec(m, [i \in 1..m |-> 0])

ones(m) == Vec(m, [i \in 1..m |-> 1])

transpose(M) ==
    Mat(M.shape[2], M.shape[1],
        [i \in 1..(M.shape[2]), j \in 1..(M.shape[1]) |-> Elem(M, j, i)])

\* c * M and -M, elementwise, for arrays of either dimension
times(c, M) == [shape |-> M.shape, data |-> [k \in DOMAIN M.data |-> c * M.data[k]]]

\* 0.5 * M, elementwise
half(M) == [shape |-> M.shape, data |-> [k \in DOMAIN M.data |-> M.data[k] \div 2]]

\* M + N, elementwise, for arrays of the same shape
plus(M, N) == [shape |-> M.shape, data |-> [k \in DOMAIN M.data |-> M.data[k] + N.data[k]]]

\* numpy.hstack: concatenation of vectors, or of matrices along their columns
hstack(M, N) ==
    IF Len(M.shape) = 1
    THEN [shape |-> <<M.shape[1] + N.shape[1]>>, data |-> M.data \o N.data]
    ELSE Mat(M.shape[1], M.shape[2] + N.shape[2],
             [i \in 1..(M.shape[1]), j \in 1..(M.shape[2] + N.shape[2]) |->
                 IF j <= M.shape[2] THEN Elem(M, i, j)
                 ELSE Elem(N, i, j - M.shape[2])])

\* numpy.vstack of two matrices: concatenation along the rows
vstack(M, N) == [shape |-> <<M.shape[1] + N.shape[1], M.shape[2]>>, data |-> M.data \o N.data]

\* row i of the product M z of a matrix with a vector given as a sequence
RECURSIVE DotFrom(_, _, _, _)
DotFrom(M, i, z, j) ==
    IF j > M.shape[2] THEN 0 ELSE Elem(M, i, j) * z[j] + DotFrom(M, i, z, j + 1)

RowDot(M, i, z) == DotFrom(M, i, z, 1)

-----------------------------------------------------------------------------
(* The heap *)

\* an object that owns its data
Owner(kind, V) == [kind |-> kind, shape |-> V.shape, data |-> V.data, base |-> None]

\* an object that shows the first Size(shape) entries of the data of `base`
View(h, r, shape) ==
    [kind |-> h[r].kind, shape |-> shape, data |-> <<>>,
     base |-> IF h[r].base = None THEN r ELSE h[r].base]

\* the array a reference stands for
Val(h, r) ==
    [shape |-> h[r].shape,
     data  |-> IF h[r].base = None THEN h[r].data
               ELSE SubSeq(h[h[r].base].data, 1, Size(h[r].shape))]

IsNdarray(h, r) == r # None /\ h[r].kind = "ndarray"

Ndim(h, r) == Len(h[r].shape)


-----------------------------------------------------------------------------
(* Python values of any type, for parameters that are bound by position *)

PyNone == [t |-> "None", b |-> FALSE, r |-> None, s |-> ""]

PyBool(b) == [t |-> "bool", b |-> b, r |-> None, s |-> ""]

PyStr(s) == [t |-> "str", b |-> FALSE, r |-> None, s |-> s]

\* a reference to an array, or None
PyRef(r) == IF r = None THEN PyNone ELSE [t |-> "ndarray", b |-> FALSE, r |-> r, s |-> ""]

-----------------------------------------------------------------------------
(* Outcomes of a call: a returned reference or a raised exception *)

NoOutcome == [kind |-> "none", value |-> None, exc |-> "", origin |-> ""]

Returned(v) == [kind |-> "return", value |-> v, exc |-> "", origin |-> ""]

\* an exception of type `exc`, raised at `origin`
Raised(exc, origin) == [kind |-> "raise", value |-> None, exc |-> exc, origin |-> origin]

-----------------------------------------------------------------------------
(* The registry, as the process holds it after import *)

SolverNames == {"highs", "piqp", "quadprog", "nonexistent"}

RegisteredAdapters ==
    [s \in {"highs", "piqp", "quadprog"} |->
        CASE s = "highs"    -> "highs_solve_qp"
          [] s = "piqp"     -> "piqp_solve_qp"
          [] s = "quadprog" -> "quadprog_solve_qp"]

DenseSolverNames == {"piqp", "quadprog"}

\* the statements that convert a dense matrix: the function and the matrix
AdvisorySites == {"highs_solve_qp", "ensure_sparse_matrices"} \X {"P", "G", "A"}

-----------------------------------------------------------------------------
(* Inputs of the calls *)

\* cost matrices: symmetric (u = 0) and not symmetric (u = 2); entries are even
PSet(n) == {Mat(n, n, [i \in 1..n, j \in 1..n |-> IF i = j THEN 2 ELSE IF i < j THEN u ELSE 0]) : u \in {0, 2}}

qVec(n) == Vec(n, [i \in 1..n |-> 0 - i])

\* constraint matrices with m rows
GSet(m, n) == {Mat(m, n, [i \in 1..m, j \in 1..n |-> IF i = j THEN 1 ELSE g]) : g \in {0, 1}}

\* a single constraint given as a flat vector
Row1d(n) == Vec(n, [j \in 1..n |-> j])

hVec(m) == Vec(m, [i \in 1..m |-> i])

lbVec(n) == Vec(n, [i \in 1..n |-> 0 - i])

ubVec(n) == Vec(n, [i \in 1..n |-> i + 1])

x0Vec(n) == Vec(n, [i \in 1..n |-> 0])

\* entries of the square matrices given as P; even, so that 0.5 * is exact
SquareEntries == {-2, 0, 2}

\* every n x n matrix over SquareEntries, symmetric or not
SquareSet(n) ==
    {[shape |-> <<n, n>>, data |-> d] : d \in [1..(n * n) -> SquareEntries]}

\* vectors an adapter may give back as a solution of a problem with k variables
\* (1, 2, ..., k); (1, 0, ..., 0); and, read as [x; s], x = 0 with s = -hVec
XSet(k) ==
    {Vec(k, [i \in 1..k |-> i]), Vec(k, [i \in 1..k |-> IF i = 1 THEN 1 ELSE 0])}
        \cup {Vec(k, [i \in 1..k |-> IF i <= j THEN 0 ELSE j - i]) : j \in 1..(k - 1)}

\* the ways a caller gives a constraint matrix: not at all, flat, or with m rows
MatrixForms == {"none", "1d"} \cup {"2d"}

\* backend-specific keyword options of a call
OptionSets == {{}, {<<"time_limit", 1>>}}

\* what a caller of solve_qp gives for initvals, verbose and the keyword
\* options: every pair of values of two of them occurs
CallOptions ==
    {[initvals |-> FALSE, verbose |-> FALSE, kwargs |-> {}],
     [initvals |-> TRUE,  verbose |-> TRUE,  kwargs |-> {}],
     [initvals |-> FALSE, verbose |-> TRUE,  kwargs |-> {<<"time_limit", 1>>}],
     [initvals |-> TRUE,  verbose |-> FALSE, kwargs |-> {<<"time_limit", 1>>}]}

SwSet == {1, 2}

RegSet == {3}

-----------------------------------------------------------------------------
(* Program order of solve_qp *)

\* solve_qp with the bounds folded before the constraints are checked
SolveQpOrderFoldFirst ==
    <<"qp_sym", "qp_reshapeA", "qp_reshapeG", "qp_fold", "qp_check", "qp_kwargs",
      "qp_lookup">>

\* solve_qp without its call of check_problem_constraints
SolveQpOrderUnchecked ==
    <<"qp_sym", "qp_reshapeA", "qp_reshapeG", "qp_fold", "qp_kwargs", "qp_lookup">>

\* the statements of solve_qp before the adapter runs, in program order
SolveQpOrder ==
    <<"qp_sym", "qp_reshapeA", "qp_reshapeG", "qp_check", "qp_fold", "qp_kwargs",
      "qp_lookup">>

\* the statement after statement `step`
After(step) ==
    LET i == CHOOSE k \in 1..Len(SolveQpOrder) : SolveQpOrder[k] = step
    IN  SolveQpOrder[i + 1]

-----------------------------------------------------------------------------
(* Frames *)

NoCaller ==
    [P |-> None, q |-> None, G |-> None, h |-> None, A |-> None, b |-> None,
     lb |-> None, ub |-> None, initvals |-> None]

NoSafer ==
    [active |-> FALSE, P |-> None, q |-> None, G |-> None, h |-> None,
     sw |-> 0, reg |-> 0, solver |-> "", initvals |-> None, sym_proj |-> FALSE,
     n |-> 0, m |-> 0, x |-> NoOutcome]

NoQp ==
    [P |-> None, q |-> None, G |-> None, h |-> None, A |-> None, b |-> None,
     lb |-> None, ub |-> None, solver |-> "", initvals |-> None,
     sym_proj |-> FALSE, verbose |-> FALSE, kwargs |-> {},
     kw_initvals |-> None, kw_verbose |-> FALSE, kw_set |-> FALSE]

NoAdp ==
    [name |-> "", P |-> None, q |-> None, G |-> None, h |-> None, A |-> None,
     b |-> None, lb |-> None, ub |-> None, initvals |-> None, verbose |-> FALSE,
     options |-> {}, backend |-> PyNone, status |-> "", col_value |-> zeros1(0),
     warned |-> {}, out |-> NoOutcome]

NoPiqp ==
    [from |-> "", P |-> None, q |-> None, G |-> None, h |-> None, A |-> None,
     b |-> None, lb |-> None, ub |-> None, verbose |-> PyBool(FALSE),
     backend |-> PyNone, options |-> {}, use_csc |-> FALSE, solver |-> "",
     setup |-> <<>>, setup_verbose |-> PyNone, status |-> "", x |-> zeros1(0),
     found |-> FALSE]

Init ==
    /\ heap = <<>>
    /\ heap0 = <<>>
    /\ solve_function = RegisteredAdapters
    /\ dense_solvers = DenseSolverNames
    /\ advisories = [s \in AdvisorySites |-> 0]
    /\ pc = "idle"
    /\ entry = ""
    /\ caller = NoCaller
    /\ safer = NoSafer
    /\ qp = NoQp
    /\ adp = NoAdp
    /\ piqp = NoPiqp
    /\ outcome = NoOutcome
    /\ trace = <<>>

\* the heap with one more object when `given`, and the reference to it
Put(h, given, V) == IF given THEN Append(h, Owner("ndarray", V)) ELSE h

Ref(h, given) == IF given THEN Len(h) + 1 ELSE None

\* the constraint matrix of a given form
FormMatrix(form, m, n, g) ==
    IF form = "1d" THEN Row1d(n) ELSE Mat(m, n, [i \in 1..m, j \in 1..n |-> IF i = j THEN 1 ELSE g])

\* rows of the constraint a form stands for
FormRows(form, m) == IF form = "2d" THEN m ELSE 1

(* The caller calls solve_qp(P, q, G, h, A, b, lb, ub, solver, initvals,
   sym_proj, verbose, **kwargs) with arrays of its own. *)
Call_solve_qp ==
    /\ pc = "idle"
    /\ \E n \in 1..MaxN, m \in 1..MaxM, Gform \in MatrixForms, Aform \in MatrixForms,
          has \in [{"h", "b", "lb", "ub"} -> BOOLEAN],
          solver \in SolverNames, sym_proj \in BOOLEAN, opt \in CallOptions :
        \E Pv \in PSet(n) :
            LET hasG == Gform # "none"
                hasA == Aform # "none"
                h1 == Put(<<>>, TRUE, Pv)
                h2 == Put(h1, TRUE, qVec(n))
                h3 == Put(h2, hasG, FormMatrix(Gform, m, n, 0))
                h4 == Put(h3, has["h"], hVec(FormRows(Gform, m)))
                h5 == Put(h4, hasA, FormMatrix(Aform, 1, n, 1))
                h6 == Put(h5, has["b"], hVec(1))
                h7 == Put(h6, has["lb"], lbVec(n))
                h8 == Put(h7, has["ub"], ubVec(n))
                h9 == Put(h8, opt.initvals, x0Vec(n))
                args == [P |-> 1, q |-> 2, G |-> Ref(h2, hasG), h |-> Ref(h3, has["h"]),
                         A |-> Ref(h4, hasA), b |-> Ref(h5, has["b"]),
                         lb |-> Ref(h6, has["lb"]), ub |-> Ref(h7, has["ub"]),
                         initvals |-> Ref(h8, opt.initvals)]
            IN  /\ (Gform = "2d" \/ m = 1)
                /\ heap' = h9
                /\ heap0' = h9
                /\ caller' = args
                /\ qp' = [NoQp EXCEPT !.P = args.P, !.q = args.q, !.G = args.G,
                                      !.h = args.h, !.A = args.A, !.b = args.b,
                                      !.lb = args.lb, !.ub = args.ub,
                                      !.solver = solver, !.initvals = args.initvals,
                                      !.sym_proj = sym_proj, !.verbose = opt.verbose,
                                      !.kwargs = opt.kwargs]
    /\ entry' = "solve_qp"
    /\ pc' = SolveQpOrder[1]
    /\ trace' = <<>>
    /\ outcome' = NoOutcome
    /\ UNCHANGED <<solve_function, dense_solvers, advisories, safer, adp, piqp>>

(* The caller calls solve_qp(P, q, sym_proj=sym_proj) with any square P; the
   other parameters take their defaults. *)
Call_solve_qp_unconstrained ==
    /\ pc = "idle"
    /\ \E n \in 1..MaxN, sym_proj \in BOOLEAN :
        \E Pv \in SquareSet(n) :
            LET h2 == Put(Put(<<>>, TRUE, Pv), TRUE, qVec(n))
                args == [NoCaller EXCEPT !.P = 1, !.q = 2]
            IN  /\ heap' = h2
                /\ heap0' = h2
                /\ caller' = args
                /\ qp' = [NoQp EXCEPT !.P = args.P, !.q = args.q,
                                      !.solver = "quadprog", !.sym_proj = sym_proj]
    /\ entry' = "solve_qp"
    /\ pc' = SolveQpOrder[1]
    /\ trace' = <<>>
    /\ outcome' = NoOutcome
    /\ UNCHANGED <<solve_function, dense_solvers, advisories, safer, adp, piqp>>

(* The caller calls solve_safer_qp(P, q, G, h, sw, reg, solver, initvals,
   sym_proj) with arrays of its own. *)
Call_solve_safer_qp ==
    /\ pc = "idle"
    /\ \E n \in 1..MaxN, m \in 1..MaxM, sw \in SwSet, reg \in RegSet,
          solver \in SolverNames, sym_proj \in BOOLEAN, hasInit \in BOOLEAN :
        \E Pv \in PSet(n), Gv \in GSet(m, n) :
            LET h1 == Put(<<>>, TRUE, Pv)
                h2 == Put(h1, TRUE, qVec(n))
                h3 == Put(h2, TRUE, Gv)
                h4 == Put(h3, TRUE, hVec(m))
                h5 == Put(h4, hasInit, x0Vec(n + m))
                args == [NoCaller EXCEPT !.P = 1, !.q = 2, !.G = 3, !.h = 4,
                                         !.initvals = Ref(h4, hasInit)]
            IN  /\ heap' = h5
                /\ heap0' = h5
                /\ caller' = args
                /\ safer' = [NoSafer EXCEPT !.active = TRUE, !.P = 1, !.q = 2, !.G = 3,
                                            !.h = 4, !.sw = sw, !.reg = reg,
                                            !.solver = solver,
                                            !.initvals = args.initvals,
                                            !.sym_proj = sym_proj]
    /\ entry' = "solve_safer_qp"
    /\ pc' = "safer_assert"
    /\ trace' = <<>>
    /\ outcome' = NoOutcome
    /\ UNCHANGED <<solve_function, dense_solvers, advisories, qp, adp, piqp>>

-----------------------------------------------------------------------------
(* solve_qp *)

\* P + P.transpose(), without the factor 0.5
SymProjUnscaled(P) == plus(P, transpose(P))

\* 0.5 * (P + P.transpose())
SymProj(P) == half(plus(P, transpose(P)))

\* P += P.transpose(); P *= 0.5: the caller's array is written
SymmetrizedInPlace(h, P) ==
    [heap |-> [h EXCEPT ![P].data = SymProj(Val(h, P)).data], ref |-> P]

\* P = 0.5 * (P + P.transpose()): the result is a new array
Symmetrized(h, P) ==
    [heap |-> Append(h, Owner(h[P].kind, SymProj(Val(h, P)))), ref |-> Len(h) + 1]

\* A = A.reshape((1, A.shape[0])): a new array object on the same data
Reshaped(h, A) ==
    [heap |-> Append(h, View(h, A, <<1, h[A].shape[1]>>)), ref |-> Len(h) + 1]

\* check_problem_constraints(G, h, A, b): the error it raises, "" for none
check_problem_constraints(G, h, A, b) ==
    IF (G = None) # (h = None) THEN "ValueError"
    ELSE IF (A = None) # (b = None) THEN "ValueError"
    ELSE ""

\* the rows G', h' of concatenate_bounds: -I x <= -lb after G, then I x <= ub
BoundRows(hasG, Gv, hv, hasLb, lbv, hasUb, ubv, n) ==
    LET G1 == IF ~hasLb THEN Gv
              ELSE IF ~hasG THEN times(-1, eye(n))
              ELSE vstack(Gv, times(-1, eye(n)))
        h1 == IF ~hasLb THEN hv
              ELSE IF ~hasG THEN times(-1, lbv)
              ELSE hstack(hv, times(-1, lbv))
        has1 == hasG \/ hasLb
        G2 == IF ~hasUb THEN G1
              ELSE IF ~has1 THEN eye(n)
              ELSE vstack(G1, eye(n))
        h2 == IF ~hasUb THEN h1
              ELSE IF ~has1 THEN ubv
              ELSE hstack(h1, ubv)
    IN  [G |-> G2, h |-> h2]

\* G, h = concatenate_bounds(G, h, lb, ub): new arrays when a bound is given
concatenate_bounds(hp, G, h, lb, ub) ==
    IF lb = None /\ ub = None THEN [heap |-> hp, G |-> G, h |-> h]
    ELSE LET n == IF lb # None THEN hp[lb].shape[1] ELSE hp[ub].shape[1]
             none == zeros1(0)
             r == BoundRows(G # None, IF G # None THEN Val(hp, G) ELSE none,
                            IF h # None THEN Val(hp, h) ELSE none,
                            lb # None, IF lb # None THEN Val(hp, lb) ELSE none,
                            ub # None, IF ub # None THEN Val(hp, ub) ELSE none, n)
         IN  [heap |-> hp \o <<Owner("ndarray", r.G), Owner("ndarray", r.h)>>,
              G |-> Len(hp) + 1, h |-> Len(hp) + 2]

\* solve_qp without the except clause
HandleNothing(out) == out

\* the try / except around the adapter call: what solve_qp gives for what
\* the expression solve_function[solver](...) gave
Handle(out) ==
    IF out.kind = "raise" /\ out.exc = "KeyError"
    THEN Raised("SolverNotFound", "solve_qp")
    ELSE out

\* solve_qp ends with `out`: back in solve_safer_qp, or at the caller
QpExit(out) ==
    IF safer.active
    THEN /\ safer' = [safer EXCEPT !.x = out]
         /\ pc' = "safer_return"
         /\ UNCHANGED outcome
    ELSE /\ outcome' = out
         /\ pc' = "done"
         /\ UNCHANGED safer

Symmetrize ==
    /\ pc = "qp_sym"
    /\ IF qp.sym_proj
       THEN LET r == Symmetrized(heap, qp.P)
            IN  heap' = r.heap /\ qp' = [qp EXCEPT !.P = r.ref]
       ELSE UNCHANGED <<heap, qp>>
    /\ pc' = After("qp_sym")
    /\ trace' = Append(trace, "qp_sym")
    /\ UNCHANGED <<heap0, solve_function, dense_solvers, advisories, entry, caller, safer, adp, piqp, outcome>>

ReshapeA ==
    /\ pc = "qp_reshapeA"
    /\ IF IsNdarray(heap, qp.A) /\ Ndim(heap, qp.A) = 1
       THEN LET r == Reshaped(heap, qp.A)
            IN  heap' = r.heap /\ qp' = [qp EXCEPT !.A = r.ref]
       ELSE UNCHANGED <<heap, qp>>
    /\ pc' = After("qp_reshapeA")
    /\ trace' = Append(trace, "qp_reshapeA")
    /\ UNCHANGED <<heap0, solve_function, dense_solvers, advisories, entry, caller, safer, adp, piqp, outcome>>

ReshapeG ==
    /\ pc = "qp_reshapeG"
    /\ IF IsNdarray(heap, qp.G) /\ Ndim(heap, qp.G) = 1
       THEN LET r == Reshaped(heap, qp.G)
            IN  heap' = r.heap /\ qp' = [qp EXCEPT !.G = r.ref]
       ELSE UNCHANGED <<heap, qp>>
    /\ pc' = After("qp_reshapeG")
    /\ trace' = Append(trace, "qp_reshapeG")
    /\ UNCHANGED <<heap0, solve_function, dense_solvers, advisories, entry, caller, safer, adp, piqp, outcome>>

CheckConstraints ==
    /\ pc = "qp_check"
    /\ trace' = Append(trace, "qp_check")
    /\ LET err == check_problem_constraints(qp.G, qp.h, qp.A, qp.b)
       IN  IF err = ""
           THEN pc' = After("qp_check") /\ UNCHANGED <<safer, outcome>>
           ELSE QpExit(Raised(err, "check_problem_constraints"))
    /\ UNCHANGED <<heap, heap0, solve_function, dense_solvers, advisories, entry, caller, qp, adp, piqp>>

ConcatenateBounds ==
    /\ pc = "qp_fold"
    /\ LET r == concatenate_bounds(heap, qp.G, qp.h, qp.lb, qp.ub)
       IN  heap' = r.heap /\ qp' = [qp EXCEPT !.G = r.G, !.h = r.h]
    /\ pc' = After("qp_fold")
    /\ trace' = Append(trace, "qp_fold")
    /\ UNCHANGED <<heap0, solve_function, dense_solvers, advisories, entry, caller, safer, adp, piqp, outcome>>

SetKwargs ==
    /\ pc = "qp_kwargs"
    /\ qp' = [qp EXCEPT !.kw_initvals = qp.initvals, !.kw_verbose = qp.verbose,
                        !.kw_set = TRUE]
    /\ pc' = After("qp_kwargs")
    /\ trace' = Append(trace, "qp_kwargs")
    /\ UNCHANGED <<heap, heap0, solve_function, dense_solvers, advisories, entry, caller, safer, adp, piqp, outcome>>

\* a call that also hands lb and ub to the adapter
AdapterFrameWithBounds(name) ==
    [NoAdp EXCEPT !.name = name, !.P = qp.P, !.q = qp.q, !.G = qp.G, !.h = qp.h,
                  !.A = qp.A, !.b = qp.b, !.lb = qp.lb, !.ub = qp.ub,
                  !.initvals = qp.kw_initvals, !.verbose = qp.kw_verbose,
                  !.options = qp.kwargs]

\* the frame of adapter `name` called as name(P, q, G, h, A, b, **kwargs)
AdapterFrame(name) ==
    [NoAdp EXCEPT !.name = name, !.P = qp.P, !.q = qp.q, !.G = qp.G, !.h = qp.h,
                  !.A = qp.A, !.b = qp.b, !.initvals = qp.kw_initvals,
                  !.verbose = qp.kw_verbose, !.options = qp.kwargs]

\* solve_function[solver], then the call of what it gave
Lookup ==
    /\ pc = "qp_lookup"
    /\ trace' = Append(trace, "qp_lookup")
    /\ IF qp.solver \in DOMAIN solve_function
       THEN /\ adp' = AdapterFrame(solve_function[qp.solver])
            /\ pc' = solve_function[qp.solver]
       ELSE /\ adp' = [NoAdp EXCEPT !.out = Raised("KeyError", "solve_function")]
            /\ pc' = "qp_handle"
    /\ UNCHANGED <<heap, heap0, solve_function, dense_solvers, advisories, entry, caller, safer, qp, piqp, outcome>>

\* return of the adapter's value, or the except clause
QpHandle ==
    /\ pc = "qp_handle"
    /\ trace' = Append(trace, "qp_handle")
    /\ QpExit(Handle(adp.out))
    /\ UNCHANGED <<heap, heap0, solve_function, dense_solvers, advisories, entry, caller, qp, adp, piqp>>

-----------------------------------------------------------------------------
(* Adapters *)

\* the adapter ends with `out`, its frame being `a`: back in solve_qp, or at
\* the caller when the caller called the adapter itself
AdapterExit(a, out) ==
    /\ adp' = [a EXCEPT !.out = out]
    /\ IF entry \in {"solve_qp", "solve_safer_qp"}
       THEN pc' = "qp_handle" /\ UNCHANGED outcome
       ELSE pc' = "done" /\ outcome' = out

\* number of variables of the problem an adapter received
NumVars(h, q) == h[q].shape[1]

\* scipy.sparse.csc_matrix(M): a new sparse matrix with the entries of M
ToCsc(h, r) == Owner("csc", Val(h, r))

\* `M = spa.csc_matrix(M)` for the dense ones among the references rs
RECURSIVE Converted(_, _)
Converted(h, rs) ==
    IF rs = <<>> THEN [heap |-> h, refs |-> <<>>]
    ELSE LET r == Head(rs)
             dense == IsNdarray(h, r)
             h1 == IF dense THEN Append(h, ToCsc(h, r)) ELSE h
             rest == Converted(h1, Tail(rs))
         IN  [heap |-> rest.heap,
              refs |-> <<IF dense THEN Len(h) + 1 ELSE r>> \o rest.refs]

\* an advisory at every conversion
warn_at_every_conversion(adv, site) ==
    [emit |-> TRUE, advisories |-> [adv EXCEPT ![site] = @ + 1]]

\* warn_about_sparse_conversion(name) at statement `site`: the advisory is
\* emitted the first time the statement converts, and not again
warn_about_sparse_conversion(adv, site) ==
    IF adv[site] = 0
    THEN [emit |-> TRUE, advisories |-> [adv EXCEPT ![site] = 1]]
    ELSE [emit |-> FALSE, advisories |-> adv]

\* the names of the dense ones among the matrices P, G, A of frame a
DenseNames(h, a) == {nm \in {"P", "G", "A"} : IsNdarray(h, a[nm])}

\* the advisories after function fn has converted the dense matrices of a
Advised(adv, fn, h, a) ==
    [s \in AdvisorySites |->
        IF s[1] = fn /\ s[2] \in DenseNames(h, a)
        THEN warn_about_sparse_conversion(adv, s).advisories[s]
        ELSE adv[s]]

\* the names for which fn emits an advisory when it converts the matrices of a
Emitted(adv, fn, h, a) ==
    {nm \in DenseNames(h, a) : warn_about_sparse_conversion(adv, <<fn, nm>>).emit}

HighsModelStatus == {"kOptimal", "kInfeasible", "kNotset"}

\* highs_solve_qp without the test of the model status
highs_result_unchecked(h, status, col_value) ==
    [heap |-> Append(h, Owner("ndarray", col_value)), out |-> Returned(Len(h) + 1)]

\* what highs_solve_qp returns for a model status and the column values
highs_result(h, status, col_value) ==
    IF status # "kOptimal" THEN [heap |-> h, out |-> Returned(None)]
    ELSE [heap |-> Append(h, Owner("ndarray", col_value)), out |-> Returned(Len(h) + 1)]

\* highs_solve_qp: conversion of dense P, G, A to sparse matrices
HighsConvert ==
    /\ pc = "highs_solve_qp"
    /\ LET r == Converted(heap, <<adp.P, adp.G, adp.A>>)
       IN  /\ heap' = r.heap
           /\ adp' = [adp EXCEPT !.P = r.refs[1], !.G = r.refs[2], !.A = r.refs[3],
                                 !.warned = Emitted(advisories, "highs_solve_qp",
                                                    heap, adp)]
    /\ advisories' = Advised(advisories, "highs_solve_qp", heap, adp)
    /\ pc' = "highs_run"
    /\ trace' = Append(trace, "highs_solve_qp")
    /\ UNCHANGED <<heap0, solve_function, dense_solvers, entry, caller, safer, qp, piqp, outcome>>

\* highs_solve_qp: the model is built and passed to HiGHS, which runs; the
\* column values are a solution when the status is kOptimal, and are not
\* read otherwise
HighsRun ==
    /\ pc = "highs_run"
    /\ \E status \in HighsModelStatus :
        \E x \in IF status = "kOptimal" THEN XSet(NumVars(heap, adp.q))
                  ELSE {zeros1(NumVars(heap, adp.q))} :
            adp' = [adp EXCEPT !.status = status, !.col_value = x]
    /\ pc' = "highs_return"
    /\ trace' = Append(trace, "highs_run")
    /\ UNCHANGED <<heap, heap0, solve_function, dense_solvers, advisories, entry, caller, safer, qp, piqp, outcome>>

\* highs_solve_qp: the model status decides what is returned
HighsReturn ==
    /\ pc = "highs_return"
    /\ LET r == highs_result(heap, adp.status, adp.col_value)
       IN  heap' = r.heap /\ AdapterExit(adp, r.out)
    /\ trace' = Append(trace, "highs_return")
    /\ UNCHANGED <<heap0, solve_function, dense_solvers, advisories, entry, caller, safer, qp, piqp>>

\* what an adapter whose source is not at hand may do: give a solution, give
\* None, or fail
QuadprogSolveQp ==
    /\ pc = "quadprog_solve_qp"
    /\ \/ \E x \in XSet(NumVars(heap, adp.q)) :
            /\ heap' = Append(heap, Owner("ndarray", x))
            /\ AdapterExit(adp, Returned(Len(heap) + 1))
       \/ /\ UNCHANGED heap
          /\ \E out \in {Returned(None), Raised("KeyError", "quadprog_solve_qp"),
                         Raised("ValueError", "quadprog_solve_qp")} :
                AdapterExit(adp, out)
    /\ trace' = Append(trace, "quadprog_solve_qp")
    /\ UNCHANGED <<heap0, solve_function, dense_solvers, advisories, entry, caller, safer, qp, piqp>>

-----------------------------------------------------------------------------
(* PIQP *)

\* def piqp_solve_problem(problem, verbose=False, backend=None, **kwargs)
piqp_solve_problem_params == <<"problem", "verbose", "backend">>

piqp_solve_problem_defaults == <<PyNone, PyBool(FALSE), PyNone>>

\* the positional arguments of the call piqp_solve_qp makes
piqp_solve_qp_call(a) ==
    <<PyStr("problem"), PyRef(a.initvals), PyBool(a.verbose), a.backend>>

\* Python's binding of positional arguments to the parameters of a function
\* that takes no *args: more arguments than parameters is a TypeError
BindPositional(params, defaults, args) ==
    IF Len(args) > Len(params)
    THEN [err |-> "TypeError", bound |-> defaults]
    ELSE [err |-> "",
          bound |-> [i \in 1..Len(params) |-> IF i <= Len(args) THEN args[i]
                                             ELSE defaults[i]]]

\* __select_backend(backend, use_csc)
select_backend(backend, use_csc) ==
    IF backend = PyNone THEN (IF use_csc THEN "SparseSolver" ELSE "DenseSolver")
    ELSE IF backend = PyStr("dense") THEN "DenseSolver"
    ELSE IF backend = PyStr("sparse") THEN "SparseSolver"
    ELSE "ParamError"

PiqpStatus == {"PIQP_SOLVED", "PIQP_MAX_ITER_REACHED", "PIQP_PRIMAL_INFEASIBLE"}

\* use_csc of piqp_solve_problem
UseCsc(h, P, G, A) ==
    \/ ~IsNdarray(h, P)
    \/ (G # None /\ ~IsNdarray(h, G))
    \/ (A # None /\ ~IsNdarray(h, A))

\* piqp_solve_problem ends with `out`: an exception passes through
\* piqp_solve_qp when that is what called it
PiqpExit(out) ==
    IF piqp.from = "piqp_solve_qp"
    THEN AdapterExit(adp, out)
    ELSE outcome' = out /\ pc' = "done" /\ UNCHANGED adp

\* piqp_solve_qp: the problem is built and piqp_solve_problem is called
PiqpSolveQp ==
    /\ pc = "piqp_solve_qp"
    /\ trace' = Append(trace, "piqp_solve_qp")
    /\ LET r == BindPositional(piqp_solve_problem_params, piqp_solve_problem_defaults,
                               piqp_solve_qp_call(adp))
       IN  IF r.err # ""
           THEN AdapterExit(adp, Raised(r.err, "piqp_solve_problem")) /\ UNCHANGED piqp
           ELSE /\ piqp' = [NoPiqp EXCEPT !.from = "piqp_solve_qp", !.P = adp.P,
                                          !.q = adp.q, !.G = adp.G, !.h = adp.h,
                                          !.A = adp.A, !.b = adp.b, !.lb = adp.lb,
                                          !.ub = adp.ub, !.verbose = r.bound[2],
                                          !.backend = r.bound[3],
                                          !.options = adp.options]
                /\ pc' = "piqp_unpack"
                /\ UNCHANGED <<adp, outcome>>
    /\ UNCHANGED <<heap, heap0, solve_function, dense_solvers, advisories, entry, caller, safer, qp>>

\* piqp_solve_problem: unpack, use_csc, ensure_sparse_matrices
PiqpUnpack ==
    /\ pc = "piqp_unpack"
    /\ LET use_csc == UseCsc(heap, piqp.P, piqp.G, piqp.A)
           r == IF use_csc THEN Converted(heap, <<piqp.P, piqp.G, piqp.A>>)
                ELSE [heap |-> heap, refs |-> <<piqp.P, piqp.G, piqp.A>>]
       IN  /\ heap' = r.heap
           /\ piqp' = [piqp EXCEPT !.use_csc = use_csc, !.P = r.refs[1],
                                   !.G = r.refs[2], !.A = r.refs[3]]
           /\ advisories' = IF use_csc
                             THEN Advised(advisories, "ensure_sparse_matrices", heap, piqp)
                             ELSE advisories
    /\ pc' = "piqp_select"
    /\ trace' = Append(trace, "piqp_unpack")
    /\ UNCHANGED <<heap0, solve_function, dense_solvers, entry, caller, safer, qp, adp, outcome>>

\* piqp_solve_problem: solver = __select_backend(backend, use_csc)
PiqpSelectBackend ==
    /\ pc = "piqp_select"
    /\ trace' = Append(trace, "piqp_select")
    /\ LET sel == select_backend(piqp.backend, piqp.use_csc)
       IN  IF sel = "ParamError"
           THEN PiqpExit(Raised("ParamError", "__select_backend")) /\ UNCHANGED piqp
           ELSE /\ piqp' = [piqp EXCEPT !.solver = sel]
                /\ pc' = "piqp_setup"
                /\ UNCHANGED <<adp, outcome>>
    /\ UNCHANGED <<heap, heap0, solve_function, dense_solvers, advisories, entry, caller, safer, qp>>

KindOf(h, r) == IF r = None THEN "None" ELSE h[r].kind

\* piqp_solve_problem: solver.setup(...) and solver.solve()
PiqpSetupSolve ==
    /\ pc = "piqp_setup"
    /\ \E status \in PiqpStatus, x \in XSet(NumVars(heap, piqp.q)) :
        piqp' = [piqp EXCEPT !.setup = <<KindOf(heap, piqp.P), KindOf(heap, piqp.G),
                                         KindOf(heap, piqp.A)>>,
                             !.setup_verbose = piqp.verbose,
                             !.status = status, !.x = x]
    /\ pc' = "piqp_solution"
    /\ trace' = Append(trace, "piqp_setup")
    /\ UNCHANGED <<heap, heap0, solve_function, dense_solvers, advisories, entry, caller, safer, qp, adp, outcome>>

\* piqp_solve_problem: the Solution; and, back in piqp_solve_qp,
\* solution.x if solution.found else None
PiqpSolution ==
    /\ pc = "piqp_solution"
    /\ trace' = Append(trace, "piqp_solution")
    /\ heap' = Append(heap, Owner("ndarray", piqp.x))
    /\ LET found == piqp.status = "PIQP_SOLVED"
       IN  /\ piqp' = [piqp EXCEPT !.found = found]
           /\ IF piqp.from = "piqp_solve_qp"
              THEN AdapterExit(adp, IF found THEN Returned(Len(heap) + 1)
                                    ELSE Returned(None))
              ELSE outcome' = Returned(Len(heap) + 1) /\ pc' = "done" /\ UNCHANGED adp
    /\ UNCHANGED <<heap0, solve_function, dense_solvers, advisories, entry, caller, safer, qp>>

\* the values a caller may give for backend
BackendValues == {PyNone, PyStr("dense"), PyStr("sparse"), PyStr("bogus")}

\* the kinds of matrix a caller of the PIQP adapter may give
MatrixKinds == {"ndarray", "csc"}

\* the heap of a caller that holds a well-formed problem with n variables,
\* P of kind Pk, G and A of kinds Gk and Ak ("None" when not given)
ProblemHeap(n, Pv, Pk, Gk, Ak, hasLb, hasUb, hasInit) ==
    LET obj(kind, V) == <<Owner(kind, V)>>
        opt(given, kind, V) == IF given THEN obj(kind, V) ELSE <<>>
        G == Mat(1, n, [i \in 1..1, j \in 1..n |-> j])
        h1 == obj(Pk, Pv) \o obj("ndarray", qVec(n))
        h2 == h1 \o opt(Gk # "None", Gk, G) \o opt(Gk # "None", "ndarray", hVec(1))
        h3 == h2 \o opt(Ak # "None", Ak, G) \o opt(Ak # "None", "ndarray", hVec(1))
        h4 == h3 \o opt(hasLb, "ndarray", lbVec(n))
        h5 == h4 \o opt(hasUb, "ndarray", ubVec(n))
        h6 == h5 \o opt(hasInit, "ndarray", x0Vec(n))
    IN  [heap |-> h6,
         refs |-> [P |-> 1, q |-> 2,
                   G |-> IF Gk # "None" THEN 3 ELSE None,
                   h |-> IF Gk # "None" THEN 4 ELSE None,
                   A |-> IF Ak # "None" THEN Len(h2) + 1 ELSE None,
                   b |-> IF Ak # "None" THEN Len(h2) + 2 ELSE None,
                   lb |-> Ref(h3, hasLb), ub |-> Ref(h4, hasUb),
                   initvals |-> Ref(h5, hasInit)]]

(* The caller calls piqp_solve_qp(P, q, G, h, A, b, lb, ub, initvals, verbose,
   backend, **kwargs) itself. *)
Call_piqp_solve_qp ==
    /\ pc = "idle"
    /\ \E n \in 1..MaxN, Pk \in MatrixKinds, Gk \in MatrixKinds \cup {"None"},
          Ak \in MatrixKinds \cup {"None"}, hasLb \in BOOLEAN, hasUb \in BOOLEAN,
          hasInit \in BOOLEAN, verbose \in BOOLEAN, backend \in BackendValues,
          kwargs \in OptionSets :
        \E Pv \in PSet(n) :
            LET r == ProblemHeap(n, Pv, Pk, Gk, Ak, hasLb, hasUb, hasInit)
            IN  /\ heap' = r.heap
                /\ heap0' = r.heap
                /\ caller' = r.refs
                /\ adp' = [NoAdp EXCEPT !.name = "piqp_solve_qp", !.P = r.refs.P,
                                        !.q = r.refs.q, !.G = r.refs.G, !.h = r.refs.h,
                                        !.A = r.refs.A, !.b = r.refs.b,
                                        !.lb = r.refs.lb, !.ub = r.refs.ub,
                                        !.initvals = r.refs.initvals,
                                        !.verbose = verbose, !.backend = backend,
                                        !.options = kwargs]
    /\ entry' = "piqp_solve_qp"
    /\ pc' = "piqp_solve_qp"
    /\ trace' = <<>>
    /\ outcome' = NoOutcome
    /\ UNCHANGED <<solve_function, dense_solvers, advisories, safer, qp, piqp>>

(* The caller calls piqp_solve_problem(problem, verbose, backend, **kwargs)
   itself. *)
Call_piqp_solve_problem ==
    /\ pc = "idle"
    /\ \E n \in 1..MaxN, Pk \in MatrixKinds, Gk \in MatrixKinds \cup {"None"},
          Ak \in MatrixKinds \cup {"None"}, hasLb \in BOOLEAN, hasUb \in BOOLEAN,
          verbose \in BOOLEAN, backend \in BackendValues, kwargs \in OptionSets :
        \E Pv \in PSet(n) :
            LET r == ProblemHeap(n, Pv, Pk, Gk, Ak, hasLb, hasUb, FALSE)
            IN  /\ heap' = r.heap
                /\ heap0' = r.heap
                /\ caller' = r.refs
                /\ piqp' = [NoPiqp EXCEPT !.from = "caller", !.P = r.refs.P,
                                          !.q = r.refs.q, !.G = r.refs.G,
                                          !.h = r.refs.h, !.A = r.refs.A,
                                          !.b = r.refs.b, !.lb = r.refs.lb,
                                          !.ub = r.refs.ub,
                                          !.verbose = PyBool(verbose),
                                          !.backend = backend, !.options = kwargs]
    /\ entry' = "piqp_solve_problem"
    /\ pc' = "piqp_unpack"
    /\ trace' = <<>>
    /\ outcome' = NoOutcome
    /\ UNCHANGED <<solve_function, dense_solvers, advisories, safer, qp, adp>>

-----------------------------------------------------------------------------
(* solve_safer_qp *)

\* the augmented problem with G2 = [Z, -E]
AugmentedNegated(P, q, G, h, sw, reg) ==
    LET n == P.shape[1]
        m == G.shape[1]
        E == eye(m)
        Z == zeros(m, n)
    IN  [P2 |-> vstack(hstack(P, transpose(Z)), hstack(Z, times(reg, eye(m)))),
         q2 |-> hstack(q, times(0 - sw, ones(m))),
         G2 |-> hstack(Z, times(-1, E)),
         h2 |-> zeros1(m),
         A2 |-> hstack(G, times(-1, E))]

\* the arrays P2, q2, G2, h2, A2 solve_safer_qp builds from P, q, G, h
Augmented(P, q, G, h, sw, reg) ==
    LET n == P.shape[1]
        m == G.shape[1]
        E == eye(m)
        Z == zeros(m, n)
    IN  [P2 |-> vstack(hstack(P, transpose(Z)), hstack(Z, times(reg, eye(m)))),
         q2 |-> hstack(q, times(0 - sw, ones(m))),
         G2 |-> hstack(Z, E),
         h2 |-> zeros1(m),
         A2 |-> hstack(G, times(-1, E))]

\* x, whole
PrefixWhole(h, x, n) == [heap |-> h, ref |-> x]

\* x[:n]: a new array object on the first n entries of x
Prefix(h, x, n) == [heap |-> Append(h, View(h, x, <<n>>)), ref |-> Len(h) + 1]

\* what solve_safer_qp gives for what solve_qp gave it
safer_result(h, x, n) ==
    IF x.kind = "raise" THEN [heap |-> h, out |-> x]
    ELSE IF x.value = None THEN [heap |-> h, out |-> Returned(None)]
    ELSE LET r == Prefix(h, x.value, n) IN [heap |-> r.heap, out |-> Returned(r.ref)]

\* a precondition that lets every solver through
SaferPreconditionNone(solver, dense) == TRUE

\* the condition of the assert statement of solve_safer_qp
SaferPrecondition(solver, dense) == solver \in dense

\* assert solver in dense_solvers
SaferAssert ==
    /\ pc = "safer_assert"
    /\ trace' = Append(trace, "safer_assert")
    /\ IF SaferPrecondition(safer.solver, dense_solvers)
       THEN pc' = "safer_build" /\ UNCHANGED outcome
       ELSE pc' = "done" /\ outcome' = Raised("AssertionError", "solve_safer_qp")
    /\ UNCHANGED <<heap, heap0, solve_function, dense_solvers, advisories, entry, caller, safer, qp, adp, piqp>>

\* the augmented problem is built and solve_qp is called on it
SaferBuild ==
    /\ pc = "safer_build"
    /\ trace' = Append(trace, "safer_build")
    /\ LET a == Augmented(Val(heap, safer.P), Val(heap, safer.q), Val(heap, safer.G),
                          Val(heap, safer.h), safer.sw, safer.reg)
           k == Len(heap)
       IN  /\ heap' = heap \o <<Owner("ndarray", a.P2), Owner("ndarray", a.q2),
                                Owner("ndarray", a.G2), Owner("ndarray", a.h2),
                                Owner("ndarray", a.A2)>>
           /\ safer' = [safer EXCEPT !.n = heap[safer.P].shape[1],
                                     !.m = heap[safer.G].shape[1]]
           /\ qp' = [NoQp EXCEPT !.P = k + 1, !.q = k + 2, !.G = k + 3, !.h = k + 4,
                                 !.A = k + 5, !.b = safer.h, !.solver = safer.solver,
                                 !.initvals = safer.initvals,
                                 !.sym_proj = safer.sym_proj]
    /\ pc' = SolveQpOrder[1]
    /\ UNCHANGED <<heap0, solve_function, dense_solvers, advisories, entry, caller, adp, piqp, outcome>>

\* if x is None: return None; return x[:n]
SaferReturn ==
    /\ pc = "safer_return"
    /\ trace' = Append(trace, "safer_return")
    /\ LET r == safer_result(heap, safer.x, safer.n)
       IN  heap' = r.heap /\ outcome' = r.out
    /\ pc' = "done"
    /\ UNCHANGED <<heap0, solve_function, dense_solvers, advisories, entry, caller, safer, qp, adp, piqp>>

-----------------------------------------------------------------------------
(* The caller *)

\* the call is over: the caller drops what it holds and is free to call again
Finish ==
    /\ pc = "done"
    /\ pc' = "idle"
    /\ heap' = <<>>
    /\ heap0' = <<>>
    /\ entry' = ""
    /\ caller' = NoCaller
    /\ safer' = NoSafer
    /\ qp' = NoQp
    /\ adp' = NoAdp
    /\ piqp' = NoPiqp
    /\ outcome' = NoOutcome
    /\ trace' = <<>>
    /\ UNCHANGED <<solve_function, dense_solvers, advisories>>

Next ==
    \/ Call_solve_qp
    \/ Call_solve_safer_qp
    \/ Symmetrize
    \/ ReshapeA
    \/ ReshapeG
    \/ CheckConstraints
    \/ ConcatenateBounds
    \/ SetKwargs
    \/ Lookup
    \/ QpHandle
    \/ HighsConvert
    \/ HighsRun
    \/ HighsReturn
    \/ QuadprogSolveQp
    \/ PiqpSolveQp
    \/ SaferAssert
    \/ SaferBuild
    \/ SaferReturn
    \/ Finish

Spec == Init /\ [][Next]_vars

\* the callers of the PIQP adapter
NextPiqp ==
    \/ Call_piqp_solve_qp
    \/ Call_piqp_solve_problem
    \/ PiqpSolveQp
    \/ PiqpUnpack
    \/ PiqpSelectBackend
    \/ PiqpSetupSolve
    \/ PiqpSolution
    \/ Finish

SpecPiqp == Init /\ [][NextPiqp]_vars

\* the symmetrization of solve_qp on square matrices of every kind
NextSym ==
    \/ Call_solve_qp_unconstrained
    \/ Symmetrize

SpecSym == Init /\ [][NextSym]_vars

-----------------------------------------------------------------------------
(* Properties *)

InTrace(e) == \E i \in 1..Len(trace) : trace[i] = e

\* the caller gave both or neither of G, h and both or neither of A, b
WellFormed == ((caller.G = None) = (caller.h = None)) /\ ((caller.A = None) = (caller.b = None))

\* an adapter was called
AdapterInvoked ==
    \/ adp.name # ""
    \/ \E a \in {"highs_solve_qp", "piqp_solve_qp", "quadprog_solve_qp"} : InTrace(a)

\* a solve_qp call of the caller is over
SolveQpDone == pc = "done" /\ entry = "solve_qp"

\* a matrix, or a flat vector read as a matrix of one row
AsMatrix(V) == IF Len(V.shape) = 1 THEN [shape |-> <<1, V.shape[1]>>, data |-> V.data] ELSE V

\* M z <= v, row by row
LeqRows(M, v, z) == \A i \in 1..M.shape[1] : RowDot(M, i, z) <= v.data[i]

\* M z = v, row by row
EqRows(M, v, z) == \A i \in 1..M.shape[1] : RowDot(M, i, z) = v.data[i]

\* the points with k coordinates in lo..hi
Points(k, lo, hi) == [1..k -> lo..hi]

(* C1: a solve_qp call on well-formed data with a solver name that is no key
   of solve_function ends with SolverNotFound, not with KeyError, and no
   adapter is called. *)
C1_SolverNotFound ==
    (SolveQpDone /\ WellFormed /\ qp.solver \notin DOMAIN solve_function)
        => /\ outcome = Raised("SolverNotFound", "solve_qp")
           /\ ~AdapterInvoked

C1_Witness ==
    /\ SolveQpDone /\ WellFormed
    /\ qp.solver = "nonexistent"
    /\ outcome.exc = "SolverNotFound"
    /\ InTrace("qp_lookup")

(* C2: whatever exception an adapter raises while solve_qp runs it, KeyError
   included, is what the caller of solve_qp gets, unchanged. *)
C2_AdapterErrorsUnchanged ==
    (SolveQpDone /\ adp.name # "" /\ adp.out.kind = "raise") => outcome = adp.out

(* C3: with exactly one of G, h or exactly one of A, b given, solve_qp ends
   with ValueError before solve_function is looked up and before any adapter
   is called, whatever the solver name; with both or neither of each pair
   given, check_problem_constraints raises nothing. *)
C3_MalformedFailsFirst ==
    entry = "solve_qp" =>
        /\ (InTrace("qp_lookup") \/ AdapterInvoked) => WellFormed
        /\ (pc = "done" /\ ~WellFormed)
              => /\ outcome = Raised("ValueError", "check_problem_constraints")
                 /\ ~InTrace("qp_lookup")
                 /\ ~AdapterInvoked
        /\ (pc = "done" /\ WellFormed) => outcome.origin # "check_problem_constraints"
        /\ (WellFormed /\ InTrace("qp_check")) => pc # "done" \/ InTrace("qp_lookup")

C3_Witness ==
    /\ SolveQpDone
    /\ caller.G # None /\ caller.h = None
    /\ qp.solver = "highs"
    /\ outcome.exc = "ValueError"
    /\ trace[Len(trace)] = "qp_check"

(* C4: for a registered solver and well-formed input solve_qp returns what
   the adapter returned, a vector or None; with the HiGHS adapter that is None
   exactly when the model status after run() is not kOptimal, and the column
   values otherwise. *)
C4_ReturnsAdapterResult ==
    SolveQpDone =>
        /\ (adp.name # "" /\ adp.out.kind = "return") => outcome = adp.out
        /\ adp.name = "highs_solve_qp"
              => /\ outcome.kind = "return"
                 /\ (outcome.value = None) <=> (adp.status # "kOptimal")
                 /\ adp.status = "kOptimal" => Val(heap, outcome.value) = adp.col_value

C4_Witness ==
    /\ SolveQpDone /\ WellFormed
    /\ adp.name = "highs_solve_qp"
    /\ adp.status = "kInfeasible"
    /\ outcome = Returned(None)

\* solve_qp has just called the adapter: the adapter's frame holds what it
\* was handed
AdapterCalled == entry = "solve_qp" /\ adp.name # "" /\ pc = adp.name

\* the adapters that have parameters lb and ub
BoxAware == {"highs_solve_qp", "piqp_solve_qp"}

\* the constraints the caller gave hold at x: G x <= h, lb <= x, x <= ub
CallerConstraints(x) ==
    /\ caller.G # None => LeqRows(AsMatrix(Val(heap, caller.G)), Val(heap, caller.h), x)
    /\ caller.lb # None => \A i \in DOMAIN x : Val(heap, caller.lb).data[i] <= x[i]
    /\ caller.ub # None => \A i \in DOMAIN x : x[i] <= Val(heap, caller.ub).data[i]

\* number of rows the caller's G, lb and ub make when folded
FoldedRowCount ==
    LET n == heap[caller.P].shape[1]
    IN  (IF caller.G # None THEN AsMatrix(Val(heap, caller.G)).shape[1] ELSE 0)
        + (IF caller.lb # None THEN n ELSE 0) + (IF caller.ub # None THEN n ELSE 0)

\* the G, h the adapter received are those of the caller with -x <= -lb and
\* x <= ub appended
AdapterGotFolded ==
    LET n == heap[caller.P].shape[1]
    IN  IF FoldedRowCount = 0 THEN adp.G = None /\ adp.h = None
        ELSE /\ adp.G # None /\ adp.h # None
             /\ Val(heap, adp.G).shape = <<FoldedRowCount, n>>
             /\ Val(heap, adp.h).shape = <<FoldedRowCount>>
             /\ caller.G # None =>
                   SubSeq(Val(heap, adp.G).data, 1, Len(Val(heap, caller.G).data))
                       = Val(heap, caller.G).data
             /\ \A x \in Points(n, -2, 2) :
                   LeqRows(Val(heap, adp.G), Val(heap, adp.h), x) <=> CallerConstraints(x)

\* the G, h the adapter received are those of the caller
AdapterGotCallerGh ==
    /\ (adp.G = None) = (caller.G = None)
    /\ (adp.h = None) = (caller.h = None)
    /\ adp.G # None => AsMatrix(Val(heap, adp.G)) = AsMatrix(Val(heap, caller.G))
    /\ adp.h # None => Val(heap, adp.h) = Val(heap, caller.h)

(* C5 as claimed: a box-aware adapter (highs_solve_qp) gets lb and ub as its
   lb and ub, and an inequality-only adapter gets them folded into G, h. *)
C5_TwoModes ==
    AdapterCalled =>
        IF adp.name \in BoxAware
        THEN adp.lb = caller.lb /\ adp.ub = caller.ub /\ AdapterGotCallerGh
        ELSE adp.lb = None /\ adp.ub = None /\ AdapterGotFolded

(* C5 amended: whatever the adapter, box-aware or not, solve_qp folds lb and
   ub as the rows -x <= -lb and x <= ub appended to G, h, and the adapter's
   lb and ub stay None. *)
C5_AlwaysFolded ==
    AdapterCalled =>
        adp.lb = None /\ adp.ub = None /\ AdapterGotFolded

C5_Witness ==
    /\ AdapterCalled
    /\ adp.name = "highs_solve_qp"
    /\ caller.G # None /\ caller.lb # None /\ caller.ub # None
    /\ adp.lb = None /\ adp.ub = None
    /\ Val(heap, adp.G).shape[1] = FoldedRowCount

\* solve_safer_qp has just handed the augmented problem to solve_qp
SaferHandedOver == entry = "solve_safer_qp" /\ safer.active /\ pc = SolveQpOrder[1]

\* the cost of the augmented problem: blockdiag(P, reg * I) and [q; -sw * 1]
AugmentedCost ==
    LET n == safer.n
        m == safer.m
        P == Val(heap, caller.P)
        q == Val(heap, caller.q)
        P2 == Val(heap, qp.P)
        q2 == Val(heap, qp.q)
    IN  /\ P2.shape = <<n + m, n + m>>
        /\ q2.shape = <<n + m>>
        /\ \A i, j \in 1..(n + m) :
              Elem(P2, i, j) = IF i <= n /\ j <= n THEN Elem(P, i, j)
                               ELSE IF i = j THEN safer.reg ELSE 0
        /\ \A k \in 1..(n + m) :
              q2.data[k] = IF k <= n THEN q.data[k] ELSE 0 - safer.sw

\* the equality system of the augmented problem is G x - s = h
AugmentedEquality ==
    LET n == safer.n
        m == safer.m
        G == Val(heap, caller.G)
        h == Val(heap, caller.h)
    IN  /\ Val(heap, qp.A).shape = <<m, n + m>>
        /\ \A z \in Points(n + m, -1, 1) :
              EqRows(Val(heap, qp.A), Val(heap, qp.b), z)
                  <=> \A i \in 1..m :
                          RowDot(G, i, SubSeq(z, 1, n)) - z[n + i] = h.data[i]

\* the inequality system of the augmented problem is s >= 0 (sign = 1) or
\* s <= 0 (sign = -1)
AugmentedInequality(sign) ==
    LET n == safer.n
        m == safer.m
    IN  /\ Val(heap, qp.G).shape = <<m, n + m>>
        /\ Val(heap, qp.h).shape = <<m>>
        /\ \A z \in Points(n + m, -1, 1) :
              LeqRows(Val(heap, qp.G), Val(heap, qp.h), z)
                  <=> \A i \in 1..m : sign * z[n + i] >= 0

(* C6 as claimed: the augmented problem over [x; s] has the inequality system
   s >= 0, the equality system G x - s = h, the cost matrix
   blockdiag(P, reg * I) and the cost vector [q; -sw * 1]. *)
C6_SlackNonNegative ==
    SaferHandedOver => AugmentedInequality(1) /\ AugmentedEquality /\ AugmentedCost

(* C6 amended: the augmented problem over [x; s] has the inequality system
   s <= 0 (G2 = [0 I], h2 = 0), the equality system G x - s = h, the cost
   matrix blockdiag(P, reg * I) and the cost vector [q; -sw * 1]. *)
C6_SlackNonPositive ==
    SaferHandedOver => AugmentedInequality(-1) /\ AugmentedEquality /\ AugmentedCost

C6_Witness ==
    /\ SaferHandedOver
    /\ safer.n = 2 /\ safer.m = 2
    /\ Val(heap, qp.G).data = <<0, 0, 1, 0, 0, 0, 0, 1>>
    /\ qp.b = caller.h

\* a solve_safer_qp call of the caller is over
SaferDone == pc = "done" /\ entry = "solve_safer_qp"

(* C7: solve_safer_qp returns None exactly when solve_qp on the augmented
   problem returned None, and otherwise the first n = P.shape[0] entries of
   what solve_qp returned; it raises nothing when solve_qp returned. *)
C7_ReturnsPrefix ==
    (SaferDone /\ safer.x.kind = "return") =>
        LET n == heap[caller.P].shape[1]
        IN  /\ outcome.kind = "return"
            /\ (outcome.value = None) <=> (safer.x.value = None)
            /\ safer.x.value # None =>
                  /\ Val(heap, outcome.value).shape = <<n>>
                  /\ Val(heap, outcome.value).data
                        = SubSeq(Val(heap, safer.x.value).data, 1, n)

C7_Witness ==
    /\ SaferDone
    /\ safer.x.kind = "return" /\ safer.x.value # None
    /\ outcome.kind = "return" /\ outcome.value # None
    /\ Len(Val(heap, safer.x.value).data) > Len(Val(heap, outcome.value).data)

(* C8: solve_safer_qp with a solver that is not in dense_solvers, registered
   or not, fails its assertion before the augmented problem is built and
   without calling solve_qp, the registry or an adapter. *)
C8_DenseOnly ==
    (entry = "solve_safer_qp" /\ safer.solver \notin dense_solvers) =>
        /\ pc \in {"safer_assert", "done"}
        /\ pc = "done" => outcome = Raised("AssertionError", "solve_safer_qp")
        /\ heap = heap0
        /\ qp = NoQp
        /\ ~AdapterInvoked
        /\ \A i \in 1..Len(trace) : trace[i] = "safer_assert"

C8_Witness ==
    /\ SaferDone
    /\ safer.solver = "nonexistent"
    /\ safer.solver \notin DOMAIN solve_function
    /\ outcome.exc = "AssertionError"

\* the values of backend that select a PIQP backend
ValidBackends == {PyNone, PyStr("dense"), PyStr("sparse")}

(* C9: piqp_solve_qp on a well-formed problem returns the solution x when
   PIQP reports PIQP_SOLVED and None otherwise, having called
   piqp_solve_problem with the verbose and backend the caller gave; it raises
   nothing. *)
C9_PiqpSolveQpReturns ==
    (pc = "done" /\ entry = "piqp_solve_qp" /\ adp.backend \in ValidBackends) =>
        /\ outcome.kind = "return"
        /\ piqp.verbose = PyBool(adp.verbose)
        /\ piqp.backend = adp.backend
        /\ (outcome.value # None) <=> (piqp.status = "PIQP_SOLVED")
        /\ outcome.value # None => Val(heap, outcome.value) = piqp.x

(* C10: a call of solve_qp or solve_safer_qp leaves every array the caller
   holds as it was, values and shapes, and leaves the registry as it was,
   at every step and however the call ends. *)
C10_Frame ==
    entry \in {"solve_qp", "solve_safer_qp"} =>
        /\ Len(heap0) <= Len(heap)
        /\ \A r \in 1..Len(heap0) : heap[r] = heap0[r]
        /\ solve_function = RegisteredAdapters
        /\ dense_solvers = DenseSolverNames

C10_Witness ==
    /\ SolveQpDone
    /\ qp.sym_proj /\ qp.P # caller.P
    /\ Val(heap, qp.P) # Val(heap, caller.P)
    /\ caller.G # None /\ Ndim(heap, caller.G) = 1 /\ Ndim(heap, qp.G) = 2
    /\ caller.lb # None
    /\ outcome.kind = "return" /\ outcome.value # None

\* solve_qp has symmetrized P
SymmetrizationDone == entry = "solve_qp" /\ qp.sym_proj /\ InTrace("qp_sym")

(* C11: the P that the symmetrization step of solve_qp leaves is symmetric,
   and the step applied to it gives the same matrix again, for every square
   matrix P the caller gives. *)
C11_Idempotent ==
    SymmetrizationDone =>
        LET S == Val(heap, qp.P)
        IN  /\ S = SymProj(Val(heap, caller.P))
            /\ SymProj(S) = S
            /\ transpose(S) = S

C11_Witness ==
    /\ SymmetrizationDone
    /\ heap[caller.P].shape = <<2, 2>>
    /\ transpose(Val(heap, caller.P)) # Val(heap, caller.P)
    /\ Val(heap, qp.P) # Val(heap, caller.P)
    /\ Val(heap, qp.P).data = <<2, -1, -1, 0>>

\* highs_solve_qp, called by solve_qp, has done its conversions
HighsConverted == entry = "solve_qp" /\ adp.name = "highs_solve_qp" /\ pc = "highs_run"

(* C12: over any sequence of solves through highs_solve_qp, each conversion
   statement has emitted its advisory at most once; after the conversions of
   a solve every dense matrix among P, G, A has been replaced by a sparse copy
   with the same entries and its statement has emitted its advisory, in this
   solve or in an earlier one; no advisory is emitted for a matrix that is not
   converted. *)
C12_AdvisoryOnce ==
    /\ \A s \in AdvisorySites : advisories[s] <= 1
    /\ HighsConverted =>
          /\ adp.warned \subseteq DenseNames(heap, qp)
          /\ \A nm \in {"P", "G", "A"} :
                IF nm \in DenseNames(heap, qp)
                THEN /\ adp[nm] # qp[nm]
                     /\ heap[adp[nm]].kind = "csc"
                     /\ Val(heap, adp[nm]) = Val(heap, qp[nm])
                     /\ advisories[<<"highs_solve_qp", nm>>] = 1
                ELSE adp[nm] = qp[nm]

\* a later solve: P and G are converted and no advisory is emitted
C12_Witness ==
    /\ HighsConverted
    /\ DenseNames(heap, qp) = {"P", "G"}
    /\ adp.warned = {}
    /\ heap[adp.P].kind = "csc" /\ heap[adp.G].kind = "csc"
    /\ advisories[<<"highs_solve_qp", "P">>] = 1
    /\ advisories[<<"highs_solve_qp", "A">>] = 0

AdapterNames == {"highs_solve_qp", "piqp_solve_qp", "quadprog_solve_qp"}

\* the place of a step in the claimed order: symmetrization, promotion,
\* validation, folding, lookup, adapter; 0 for any other step
Rank(e) ==
    CASE e = "qp_sym" -> 1
      [] e \in {"qp_reshapeA", "qp_reshapeG"} -> 2
      [] e = "qp_check" -> 3
      [] e = "qp_fold" -> 4
      [] e = "qp_lookup" -> 5
      [] e \in AdapterNames -> 6
      [] OTHER -> 0

\* the ranks of a whole call: both promotions are tried, every other step is
\* taken once
WholeCall == <<1, 2, 2, 3, 4, 5, 6>>

\* the ranked steps taken so far, in the order taken
RankedSteps == SelectSeq(trace, LAMBDA e : Rank(e) > 0)

\* the adapter steps taken so far
AdapterCalls == {i \in 1..Len(trace) : trace[i] \in AdapterNames}

\* the steps of solve_qp were taken in the order claimed, none twice
ClaimedOrder ==
    LET steps == RankedSteps
        k == Len(steps)
    IN  /\ k <= Len(WholeCall)
        /\ \A i \in 1..k : Rank(steps[i]) = WholeCall[i]
        /\ \A i \in 1..k : \A j \in (i + 1)..k : steps[i] # steps[j]
        /\ Cardinality(AdapterCalls) <= 1

\* the adapter holds the normalized problem of the caller, and initvals,
\* verbose and the keyword options as the caller gave them
NormalizedHandedOver ==
    LET n == heap[caller.P].shape[1]
        P == Val(heap, caller.P)
    IN  /\ IF qp.sym_proj THEN Val(heap, adp.P) = half(plus(P, transpose(P)))
           ELSE adp.P = caller.P
        /\ adp.q = caller.q
        /\ IF caller.A = None THEN adp.A = None
           ELSE /\ Val(heap, adp.A) = AsMatrix(Val(heap, caller.A))
                /\ Ndim(heap, caller.A) = 2 => adp.A = caller.A
        /\ adp.b = caller.b
        /\ IF FoldedRowCount = 0 THEN adp.G = None /\ adp.h = None
           ELSE /\ Val(heap, adp.G).shape = <<FoldedRowCount, n>>
                /\ Val(heap, adp.h).shape = <<FoldedRowCount>>
                /\ caller.G # None =>
                      /\ SubSeq(Val(heap, adp.G).data, 1, Len(Val(heap, caller.G).data))
                            = Val(heap, caller.G).data
                      /\ SubSeq(Val(heap, adp.h).data, 1, Len(Val(heap, caller.h).data))
                            = Val(heap, caller.h).data
        /\ adp.initvals = caller.initvals
        /\ adp.verbose = qp.verbose
        /\ adp.options = qp.kwargs
        /\ adp.lb = None /\ adp.ub = None /\ adp.backend = PyNone

(* C13: in every solve_qp call the steps are taken in the order
   symmetrization, promotion of a flat A and G, constraint validation, bound
   folding, registry lookup, adapter, each at most once; the adapter is called
   with the symmetrized P (the caller's P without sym_proj), the caller's q
   and b, A and G as matrices of one row with the same entries when given
   flat, G and h followed by the bound rows, and initvals, verbose and the
   keyword options as given; after a failed validation or a failed lookup no
   further step is taken and no adapter is called. *)
C13_StepOrder ==
    entry \in {"solve_qp", "solve_safer_qp"} =>
        /\ ClaimedOrder
        /\ AdapterCalled => NormalizedHandedOver
        /\ (pc = "done" /\ outcome.origin = "check_problem_constraints")
              => trace[Len(trace)] = "qp_check"
        /\ adp.out = Raised("KeyError", "solve_function")
              => /\ AdapterCalls = {}
                 /\ trace[Len(trace)] \in {"qp_lookup", "qp_handle"}

C13_Witness ==
    /\ AdapterCalled
    /\ adp.name = "quadprog_solve_qp"
    /\ trace = <<"qp_sym", "qp_reshapeA", "qp_reshapeG", "qp_check", "qp_fold",
                 "qp_kwargs", "qp_lookup">>
    /\ qp.sym_proj /\ Val(heap, adp.P) # Val(heap, caller.P)
    /\ caller.G # None /\ caller.A # None
    /\ Ndim(heap, caller.G) = 1 /\ Ndim(heap, caller.A) = 1
    /\ Ndim(heap, adp.A) = 2 /\ Val(heap, adp.G).shape[1] = 1 + heap[caller.P].shape[1]
    /\ caller.lb # None /\ caller.ub = None
    /\ adp.initvals # None /\ adp.options # {}

\* the representation a PIQP backend works on
Representation(solver) == IF solver = "DenseSolver" THEN "ndarray" ELSE "csc"

(* C14: in piqp_solve_problem with backend None, "dense" or "sparse", the
   backend that is set up gets each of P, G, A that is given in the
   representation it works on, dense arrays for DenseSolver and sparse
   matrices for SparseSolver; with any other backend the call ends with
   ParamError and setup() and solve() are not called. *)
C14_BackendRepresentation ==
    entry = "piqp_solve_problem" =>
        /\ InTrace("piqp_setup") =>
              /\ piqp.backend \in ValidBackends
              /\ \A k \in 1..3 :
                    piqp.setup[k] \in {"None", Representation(piqp.solver)}
        /\ (pc = "done" /\ piqp.backend \notin ValidBackends)
              => /\ outcome = Raised("ParamError", "__select_backend")
                 /\ ~InTrace("piqp_setup")

\* solve_safer_qp is over and the adapter had returned a point [x; s]
SaferSolved ==
    /\ SaferDone
    /\ adp.name # "" /\ adp.out.kind = "return" /\ adp.out.value # None

\* the point [x; s] the adapter returned
AdapterPoint == Val(heap, adp.out.value).data

\* [x; s] satisfies the systems solve_safer_qp built: G2 z <= h2, A2 z = b2
AugmentedFeasible(z) ==
    /\ LeqRows(Val(heap, qp.G), Val(heap, qp.h), z)
    /\ EqRows(Val(heap, qp.A), Val(heap, qp.b), z)

\* multipliers of the inequality and of the equality rows
InequalityMultipliers(m) == [1..m -> 0..3]

EqualityMultipliers(m) == [1..m -> -3..3]

\* z is the minimizer of the augmented problem, which is convex: it is
\* feasible and satisfies the Karush-Kuhn-Tucker conditions
\*   1/2 (P2 + P2^T) z + q2 + G2^T lambda + A2^T nu = 0,
\*   lambda >= 0, lambda_i (G2 z - h2)_i = 0
AugmentedOptimal(z) ==
    LET P2 == Val(heap, qp.P)
        q2 == Val(heap, qp.q)
        G2 == Val(heap, qp.G)
        h2 == Val(heap, qp.h)
        A2 == Val(heap, qp.A)
        S  == half(plus(P2, transpose(P2)))
        m  == safer.m
    IN  /\ AugmentedFeasible(z)
        /\ \E lambda \in InequalityMultipliers(m), nu \in EqualityMultipliers(m) :
              /\ \A j \in 1..Len(z) :
                    RowDot(S, j, z) + q2.data[j] + RowDot(transpose(G2), j, lambda)
                        + RowDot(transpose(A2), j, nu) = 0
              /\ \A i \in 1..m : lambda[i] * (RowDot(G2, i, z) - h2.data[i]) = 0

\* {x : G x < h} is not empty
NonEmptyInterior ==
    LET G == Val(heap, caller.G)
        h == Val(heap, caller.h)
    IN  \E x \in Points(safer.n, -2, 2) :
            \A i \in 1..safer.m : RowDot(G, i, x) < h.data[i]

Magnitude(v) == IF v < 0 THEN 0 - v ELSE v

\* the x solve_safer_qp returned satisfies G x <= h with slack |s|
ReturnedFeasible ==
    LET G == Val(heap, caller.G)
        h == Val(heap, caller.h)
        x == Val(heap, outcome.value).data
    IN  \A i \in 1..safer.m :
            /\ RowDot(G, i, x) <= h.data[i]
            /\ h.data[i] - RowDot(G, i, x) = Magnitude(AdapterPoint[safer.n + i])

\* the x solve_safer_qp returned satisfies G x < h
ReturnedStrictlyInside ==
    LET G == Val(heap, caller.G)
        h == Val(heap, caller.h)
        x == Val(heap, outcome.value).data
    IN  \A i \in 1..safer.m : RowDot(G, i, x) < h.data[i]

(* C15: when the adapter returns a point [x; s] that satisfies the systems
   solve_safer_qp built, the x that solve_safer_qp returns satisfies
   G x <= h and h - G x is |s|, row by row; and when moreover sw > 0,
   {x : G x < h} is not empty and [x; s] is the minimizer of the augmented
   problem, the returned x satisfies G x < h. *)
C15_StrictlyInside ==
    (SaferSolved /\ AugmentedFeasible(AdapterPoint)) =>
        /\ outcome.kind = "return" /\ outcome.value # None
        /\ ReturnedFeasible
        /\ (safer.sw > 0 /\ NonEmptyInterior /\ AugmentedOptimal(AdapterPoint))
              => ReturnedStrictlyInside

=============================================================================
